---- MODULE Spec2Model ----
(***************************************************************************)
(* FRC-4121 Vision-Motion: the calibration store and the two estimators    *)
(* of Vision/FRCVisionLibrary.py, and the polling thread of                *)
(* Motion/FRCNavxLibrary.py.                                               *)
(*                                                                         *)
(* Python strings are sequences of one-character strings, so that strip,   *)
(* split, upper, int and float are computed character by character.        *)
(* Python floats are exact rationals <<n, d>> (d > 0, lowest terms); the   *)
(* inputs are chosen so that every square root taken is exact.  Angles in  *)
(* degrees that the code obtains with degrees(atan(q)) are carried as q.   *)
(***************************************************************************)
EXTENDS Integers, Sequences, FiniteSets, TLC

VARIABLES
    ball_values,   \* VisionLibrary.ball_values, class-level dict
    goal_values,   \* VisionLibrary.goal_values, class-level dict
    tape_values,   \* VisionLibrary.tape_values, class-level dict
    visionFile,    \* VisionLibrary.visionFile, class-level field
    instances,     \* the VisionLibrary objects constructed so far
    lastCall,      \* the last call on the vision library: arguments and outcome
    stopped,       \* FRCNavx.stopped
    angle,         \* FRCNavx.angle
    time,          \* FRCNavx.time
    date,          \* FRCNavx.date
    polls,         \* number of iterations of FRCNavx.update begun so far
    threads,       \* every polling thread: its place in update and its iteration
    navxLog,       \* what the threads did since stop_navx was first called
    reader         \* what a caller of read_angle, read_time, read_date got so far

visionVars == <<ball_values, goal_values, tape_values, visionFile, instances, lastCall>>
navxVars == <<stopped, angle, time, date, polls, threads, navxLog, reader>>
vars == <<visionVars, navxVars>>

-----------------------------------------------------------------------------
(* Python str methods                                                      *)

WhiteSpace == {" ", "\t", "\n", "\r"}

LowerCase == <<"a","b","c","d","e","f","g","h","i","j","k","l","m",
               "n","o","p","q","r","s","t","u","v","w","x","y","z">>

UpperCase == <<"A","B","C","D","E","F","G","H","I","J","K","L","M",
               "N","O","P","Q","R","S","T","U","V","W","X","Y","Z">>

UpperChar(c) ==
    IF \E i \in 1..Len(LowerCase) : LowerCase[i] = c
    THEN UpperCase[CHOOSE i \in 1..Len(LowerCase) : LowerCase[i] = c]
    ELSE c

\* str.upper()
Upper(s) == [i \in 1..Len(s) |-> UpperChar(s[i])]

RECURSIVE LStrip(_)
LStrip(s) ==
    IF s # <<>> /\ Head(s) \in WhiteSpace THEN LStrip(Tail(s)) ELSE s

RECURSIVE RStrip(_)
RStrip(s) ==
    IF s # <<>> /\ s[Len(s)] \in WhiteSpace
    THEN RStrip(SubSeq(s, 1, Len(s) - 1))
    ELSE s

\* str.strip()
Strip(s) == RStrip(LStrip(s))

\* str.split(','): fields cut at every comma; the empty string gives ['']
RECURSIVE SplitFrom(_, _, _)
SplitFrom(s, cur, acc) ==
    IF s = <<>> THEN Append(acc, cur)
    ELSE IF Head(s) = "," THEN SplitFrom(Tail(s), <<>>, Append(acc, cur))
    ELSE SplitFrom(Tail(s), Append(cur, Head(s)), acc)

Split(s) == SplitFrom(s, <<>>, <<>>)

-----------------------------------------------------------------------------
(* Python dict                                                             *)

EmptyDict == <<>>

\* d[k] = v
DictPut(d, k, v) == [x \in (DOMAIN d) \cup {k} |-> IF x = k THEN v ELSE d[x]]

HasKey(d, k) == k \in DOMAIN d

-----------------------------------------------------------------------------
(* read_vision_file                                                        *)

kwBALL == <<"B","A","L","L",":">>
kwGOALTARGET == <<"G","O","A","L","T","A","R","G","E","T",":">>
kwVISIONTAPE == <<"V","I","S","I","O","N","T","A","P","E",":">>

\* lines 73-86: the section a line selects and whether it is a section line
LineSection(split_line, value_section) ==
    IF Upper(split_line[1]) = kwBALL THEN [section |-> "BALL", new |-> TRUE]
    ELSE IF Upper(split_line[1]) = kwGOALTARGET THEN [section |-> "GOALTARGET", new |-> TRUE]
    ELSE IF Upper(split_line[1]) = kwVISIONTAPE THEN [section |-> "VISIONTAPE", new |-> TRUE]
    ELSE IF split_line[1] = <<>> THEN [section |-> "", new |-> TRUE]
    ELSE [section |-> value_section, new |-> FALSE]

\* lines 89-97 on one line; split_line[1] of the code is split_line[2] here
\* (TLA+ sequences start at 1) and raises IndexError when the line has one field
StoreLine(st, split_line, sec) ==
    IF sec.new THEN [st EXCEPT !.section = sec.section]
    ELSE IF sec.section \notin {"BALL", "GOALTARGET", "VISIONTAPE"}
         THEN [st EXCEPT !.section = sec.section]
    ELSE IF Len(split_line) < 2
         THEN [st EXCEPT !.section = sec.section, !.raised = "IndexError"]
    ELSE IF sec.section = "BALL"
         THEN [st EXCEPT !.section = sec.section,
                         !.ball = DictPut(st.ball, Upper(split_line[1]), split_line[2])]
    ELSE IF sec.section = "GOALTARGET"
         THEN [st EXCEPT !.section = sec.section,
                         !.goal = DictPut(st.goal, Upper(split_line[1]), split_line[2])]
    ELSE [st EXCEPT !.section = sec.section,
                    !.tape = DictPut(st.tape, Upper(split_line[1]), split_line[2])]

\* lines 64-97: the loop over the lines, left at the first exception
RECURSIVE ReadLines(_, _)
ReadLines(value_list, st) ==
    IF value_list = <<>> \/ st.raised # "" THEN st
    ELSE LET split_line == Split(Strip(Head(value_list)))
         IN  ReadLines(Tail(value_list),
                       StoreLine(st, split_line, LineSection(split_line, st.section)))

\* line 102, or the exception that left the loop
ReadReturn(st) ==
    [ball |-> st.ball, goal |-> st.goal, tape |-> st.tape,
     raised |-> st.raised, ret |-> (st.raised = "")]

\* a path at which no file exists, and the file with the given lines
NoFile == [exists |-> FALSE, lines |-> <<>>]

File(lines) == [exists |-> TRUE, lines |-> lines]

\* read_vision_file(file): the dicts it leaves, and its return value or exception.
\* open() raises FileNotFoundError at a path where no file exists (lines 99-100).
ReadVisionFile(file, ball, goal, tape) ==
    IF ~file.exists
    THEN [ball |-> ball, goal |-> goal, tape |-> tape, raised |-> "", ret |-> FALSE]
    ELSE ReadReturn(ReadLines(file.lines, [section |-> "", raised |-> "",
                                           ball |-> ball, goal |-> goal, tape |-> tape]))

-----------------------------------------------------------------------------
(* Python numbers                                                          *)

Digits == <<"0","1","2","3","4","5","6","7","8","9">>

IsDigit(c) == \E i \in 1..Len(Digits) : Digits[i] = c

DigitVal(c) == (CHOOSE i \in 1..Len(Digits) : Digits[i] = c) - 1

AllDigits(s) == \A i \in 1..Len(s) : IsDigit(s[i])

RECURSIVE DigitsVal(_, _)
DigitsVal(s, acc) ==
    IF s = <<>> THEN acc ELSE DigitsVal(Tail(s), 10 * acc + DigitVal(Head(s)))

RECURSIVE Pow10(_)
Pow10(k) == IF k = 0 THEN 1 ELSE 10 * Pow10(k - 1)

HasSign(s) == s # <<>> /\ Head(s) \in {"+", "-"}

Unsigned(s) == IF HasSign(s) THEN Tail(s) ELSE s

SignOf(s) == IF s # <<>> /\ Head(s) = "-" THEN -1 ELSE 1

\* int(str): surrounding whitespace, an optional sign, decimal digits;
\* anything else is a ValueError
IntOk(s) == LET u == Unsigned(Strip(s)) IN u # <<>> /\ AllDigits(u)

IntVal(s) == LET t == Strip(s) IN SignOf(t) * DigitsVal(Unsigned(t), 0)

Abs(n) == IF n < 0 THEN -n ELSE n

RECURSIVE GCD(_, _)
GCD(a, b) == IF b = 0 THEN a ELSE GCD(b, a % b)

\* the rational n/d (d # 0) in lowest terms with a positive denominator
Rat(n, d) ==
    LET g == GCD(Abs(n), Abs(d))
        sgn == IF d < 0 THEN -1 ELSE 1
    IN  <<sgn * (n \div g), sgn * (d \div g)>>

RInt(n) == <<n, 1>>
RAdd(a, b) == Rat(a[1] * b[2] + b[1] * a[2], a[2] * b[2])
RSub(a, b) == Rat(a[1] * b[2] - b[1] * a[2], a[2] * b[2])
RMul(a, b) == Rat(a[1] * b[1], a[2] * b[2])
RDiv(a, b) == Rat(a[1] * b[2], a[2] * b[1])
RNeg(a) == <<-a[1], a[2]>>
RAbs(a) == <<Abs(a[1]), a[2]>>
RLe(a, b) == a[1] * b[2] <= b[1] * a[2]
RLt(a, b) == a[1] * b[2] < b[1] * a[2]
RIsZero(a) == a[1] = 0

\* position of the decimal point of s, or Len(s) + 1 when it has none
PointAt(s) ==
    IF \E i \in 1..Len(s) : s[i] = "."
    THEN CHOOSE i \in 1..Len(s) : s[i] = "." /\ \A j \in 1..(i - 1) : s[j] # "."
    ELSE Len(s) + 1

\* float(str): surrounding whitespace, an optional sign, digits with at most one
\* decimal point and at least one digit; anything else is a ValueError
\* (exponents, inf and nan are outside the value alphabet of the model)
FloatOk(s) ==
    LET u == Unsigned(Strip(s))
        p == PointAt(u)
        ip == SubSeq(u, 1, p - 1)
        fp == SubSeq(u, p + 1, Len(u))
    IN  AllDigits(ip) /\ AllDigits(fp) /\ Len(ip) + Len(fp) > 0

FloatVal(s) ==
    LET t == Strip(s)
        u == Unsigned(t)
        p == PointAt(u)
        ip == SubSeq(u, 1, p - 1)
        fp == SubSeq(u, p + 1, Len(u))
    IN  Rat(SignOf(t) * (DigitsVal(ip, 0) * Pow10(Len(fp)) + DigitsVal(fp, 0)),
            Pow10(Len(fp)))

\* math.sqrt on a positive rational n/d = sqrt(n*d)/d; exact whenever n*d is a
\* perfect square, as it is for every root the model takes
ISqrt(n) == CHOOSE k \in 0..n : k * k <= n /\ (k + 1) * (k + 1) > n

RSqrt(a) == Rat(ISqrt(a[1] * a[2]), a[2])

IsSquare(a) == LET k == ISqrt(a[1] * a[2]) IN k * k = a[1] * a[2]

-----------------------------------------------------------------------------
(* Calibration keys and calibration sources                                *)

kHMIN == <<"H","M","I","N">>
kHMAX == <<"H","M","A","X">>
kSMIN == <<"S","M","I","N">>
kSMAX == <<"S","M","A","X">>
kVMIN == <<"V","M","I","N">>
kVMAX == <<"V","M","A","X">>
kMINRADIUS == <<"M","I","N","R","A","D","I","U","S">>
kRADIUS == <<"R","A","D","I","U","S">>
kMINAREA == <<"M","I","N","A","R","E","A">>
kTAPEWIDTH == <<"T","A","P","E","W","I","D","T","H">>
kGOALHEIGHT == <<"G","O","A","L","H","E","I","G","H","T">>
kLOCKTOLERANCE == <<"L","O","C","K","T","O","L","E","R","A","N","C","E">>

HsvKeys == <<kHMIN, kHMAX, kSMIN, kSMAX, kVMIN, kVMAX>>

\* the text line "key,value\n"
KV(k, v) == k \o <<",">> \o v \o <<"\n">>

HsvLines(lo, hi) ==
    << KV(kHMIN, lo), KV(kHMAX, hi), KV(kSMIN, lo), KV(kSMAX, hi),
       KV(kVMIN, lo), KV(kVMAX, hi) >>

BlankLine == <<"\n">>

\* a well-formed source with the three sections
FileFull ==
    << kwBALL \o <<"\n">> >> \o HsvLines(<<"2","0">>, <<"9","0">>)
    \o << KV(kMINRADIUS, <<"4">>), KV(kRADIUS, <<"3",".","5">>), BlankLine,
          kwGOALTARGET \o <<"\n">>, KV(kHMIN, <<"7">>), BlankLine,
          kwVISIONTAPE \o <<"\n">> >>
    \o HsvLines(<<"5","0">>, <<"8","0">>)
    \o << KV(kMINAREA, <<"5">>), KV(kTAPEWIDTH, <<"4",".","0">>),
          KV(kGOALHEIGHT, <<"7">>), KV(kLOCKTOLERANCE, <<"2",".","5">>) >>

\* a source with the colour bounds only, written in lower case
FileHsv ==
    << <<"b","a","l","l",":">> >>
    \o << <<"h","m","i","n",",","2","0">>, <<"h","m","a","x",",","9","0">>,
          <<"s","m","i","n",",","2","0">>, <<"s","m","a","x",",","9","0">>,
          <<"v","m","i","n",",","2","0">>, <<"v","m","a","x",",","9","0">> >>
    \o << <<>>, <<"V","i","s","i","o","n","T","a","p","e",":">> >>
    \o HsvLines(<<"5","0">>, <<"8","0">>)

\* a source that adds the size thresholds and the tape width
FileMin ==
    << kwBALL, KV(kMINRADIUS, <<"4">>), BlankLine,
       kwVISIONTAPE, KV(kMINAREA, <<"5">>), KV(kTAPEWIDTH, <<"4",".","0">>) >>

\* a source with values that are no numbers
FileBad ==
    << kwBALL, KV(kMINRADIUS, <<"x">>), BlankLine,
       kwVISIONTAPE, KV(kGOALHEIGHT, <<"x">>) >>

FixedFiles == {NoFile} \cup {File(l) : l \in {FileFull, FileHsv, FileMin, FileBad}}

-----------------------------------------------------------------------------
(* Reading a calibration value: VisionLibrary.xxx_values[key] under int()  *)
(* or float()                                                              *)

\* the exception of int(d[k]): KeyError when k is absent, ValueError when the
\* value is no integer literal, "" when there is none
IntErr(d, k) ==
    IF ~HasKey(d, k) THEN "KeyError"
    ELSE IF ~IntOk(d[k]) THEN "ValueError"
    ELSE ""

\* the exception of float(d[k])
FloatErr(d, k) ==
    IF ~HasKey(d, k) THEN "KeyError"
    ELSE IF ~FloatOk(d[k]) THEN "ValueError"
    ELSE ""

\* the colour bounds taken without being read
HsvErrSkipped(d) == ""

\* lines 145-150 and 216-221: the six colour bounds are read in this order
\* and the first failing read raises
HsvErr(d) ==
    LET bad == {i \in 1..Len(HsvKeys) : IntErr(d, HsvKeys[i]) # ""}
    IN  IF bad = {} THEN ""
        ELSE IntErr(d, HsvKeys[CHOOSE i \in bad : \A j \in bad : i <= j])

\* math.tan(math.radians(deg)) on the fields of view the model draws
\* (tan 45 is 1 to within one unit in the last place of a double)
TanDeg(deg) == IF deg = 0 THEN RInt(0) ELSE RInt(1)

\* math.cos(math.radians(deg)) on the bot angles the model draws
\* (cos 60 is 1/2 to within one unit in the last place of a double)
CosDeg(deg) == IF deg = 0 THEN RInt(1) ELSE Rat(1, 2)

-----------------------------------------------------------------------------
(* detect_game_balls                                                       *)
(* A frame is given by the contours process_image_contours finds in it;    *)
(* a ball contour by cv.contourArea and cv.minEnclosingCircle of it.       *)

\* sorted(ballContours, key=cv.contourArea, reverse=True): a stable sort, so
\* contours of equal area keep their order
RECURSIVE InsertByArea(_, _)
InsertByArea(sorted, c) ==
    IF sorted = <<>> THEN <<c>>
    ELSE IF Head(sorted).area >= c.area
         THEN <<Head(sorted)>> \o InsertByArea(Tail(sorted), c)
         ELSE <<c>> \o sorted

RECURSIVE SortByAreaDesc(_, _)
SortByAreaDesc(contours, sorted) ==
    IF contours = <<>> THEN sorted
    ELSE SortByAreaDesc(Tail(contours), InsertByArea(sorted, Head(contours)))

\* line 178: the radius test
MeetsMinRadius(radius, minRadius) == radius > minRadius

\* lines 183-196 for one accepted contour, distanceToBall not 0: the
\* detection dictionary (angle carried as offsetInInches / distanceToBall,
\* percent in units of pi)
BallDict(c, cam, distanceToBall, offsetInInches) ==
    IF cam.width * cam.height = 0 THEN [raised |-> "ZeroDivisionError"]
    ELSE [raised |-> "",
          dict |-> [x |-> c.x, y |-> c.y, radius |-> c.radius,
                    distance |-> distanceToBall,
                    angle |-> RDiv(offsetInInches, distanceToBall),
                    offset |-> RNeg(offsetInInches),
                    percent |-> Rat(c.radius * c.radius, cam.width * cam.height)]]

\* lines 182-184
BallDistance(c, cam, inches_per_pixel) ==
    IF RIsZero(TanDeg(cam.fov)) THEN [raised |-> "ZeroDivisionError"]
    ELSE IF cam.width = 0 \/ RIsZero(inches_per_pixel)
         THEN [raised |-> "ZeroDivisionError"]
    ELSE BallDict(c, cam,
                  RMul(inches_per_pixel,
                       RDiv(RInt(cam.width), RMul(RInt(2), TanDeg(cam.fov)))),
                  RMul(inches_per_pixel, RSub(RInt(c.x), Rat(cam.width, 2))))

\* lines 181-196 for one accepted contour: the exception raised, or the
\* detection dictionary
BallMetrics(c, cam, d) ==
    IF FloatErr(d, kRADIUS) # "" THEN [raised |-> FloatErr(d, kRADIUS)]
    ELSE IF c.radius = 0 THEN [raised |-> "ZeroDivisionError"]
    ELSE BallDistance(c, cam, RDiv(FloatVal(d[kRADIUS]), RInt(c.radius)))

\* lines 172-207: the loop over the sorted contours, left by break at the
\* first contour that fails the radius test and by the first exception
RECURSIVE BallLoop(_, _, _, _)

\* lines 189-202
BallAccept(m, rest, cam, d, acc) ==
    IF m.raised # "" THEN [acc EXCEPT !.raised = m.raised]
    ELSE BallLoop(rest, cam, d,
                  [acc EXCEPT !.ballsFound = @ + 1,
                              !.ballData = Append(@, m.dict)])

BallLoop(sortedContours, cam, d, acc) ==
    IF sortedContours = <<>> THEN acc
    ELSE IF IntErr(d, kMINRADIUS) # ""
         THEN [acc EXCEPT !.raised = IntErr(d, kMINRADIUS)]
    ELSE IF ~MeetsMinRadius(Head(sortedContours).radius, IntVal(d[kMINRADIUS]))
         THEN acc
    ELSE BallAccept(BallMetrics(Head(sortedContours), cam, d),
                    Tail(sortedContours), cam, d, acc)

NoResult == "NoResult"

\* line 209
BallReturn(out) ==
    IF out.raised # "" THEN [raised |-> out.raised, ret |-> NoResult]
    ELSE [raised |-> "", ret |-> <<out.ballsFound, out.ballData>>]

\* detect_game_balls(imgRaw, cameraWidth, cameraHeight, cameraFOV): the
\* exception raised, or the pair returned
DetectGameBalls(ballContours, cam, d) ==
    IF HsvErr(d) # "" THEN [raised |-> HsvErr(d), ret |-> NoResult]
    ELSE IF Len(ballContours) > 0
         THEN BallReturn(BallLoop(SortByAreaDesc(ballContours, <<>>), cam, d,
                                  [raised |-> "", ballsFound |-> 0, ballData |-> <<>>]))
    ELSE BallReturn([raised |-> "", ballsFound |-> 0, ballData |-> <<>>])

-----------------------------------------------------------------------------
(* detect_tape_rectangle                                                   *)
(* A tape contour is given by cv.contourArea, cv.boundingRect (x, y, w, h) *)
(* and the angle of cv.minAreaRect of it.                                  *)

None == "None"

\* max(tapeContours, key=cv.contourArea): the first contour of largest area
LargestContour(tapeContours) ==
    tapeContours[CHOOSE i \in 1..Len(tapeContours) :
                    /\ \A j \in 1..Len(tapeContours) :
                          tapeContours[j].area <= tapeContours[i].area
                    /\ \A j \in 1..(i - 1) :
                          tapeContours[j].area < tapeContours[i].area]

\* line 269: the area test
MeetsMinArea(area, minArea) == area > minArea

\* a lock test that leaves the tolerance itself out
WithinToleranceStrict(horizOffsetInInches, lockTolerance) ==
    RLt(RAbs(horizOffsetInInches), lockTolerance)

\* line 321: the lock test
WithinTolerance(horizOffsetInInches, lockTolerance) ==
    RLe(RAbs(horizOffsetInInches), lockTolerance)

\* lines 226-252: the values the locals start with
TapeDefaults ==
    [targetX |-> RInt(1000), targetY |-> RInt(1000),
     targetW |-> RInt(1000), targetH |-> RInt(1000),
     aspectRatio |-> RInt(0), centerOffset |-> RInt(0), cameraAngle |-> RInt(0),
     botAngle |-> RInt(0), apparentTapeWidth |-> RInt(0), distanceArg |-> RInt(0),
     straightLineDistance |-> RInt(1000), distanceToTape |-> RInt(1000),
     distanceToWall |-> RInt(1000), horizAngleToTape |-> RInt(0),
     vertAngleToTape |-> RInt(0), inchesPerPixel |-> RInt(0),
     horizOffsetPixels |-> RInt(0), horizOffsetInInches |-> RInt(0),
     vertOffsetPixels |-> RInt(0), vertOffsetInInches |-> RInt(0),
     rect |-> None, box |-> None, foundTape |-> FALSE, targetLock |-> FALSE,
     raised |-> ""]

\* lines 284-288
CameraAngle(rectAngle) ==
    IF Abs(rectAngle) < 45 THEN Abs(rectAngle) ELSE 90 - Abs(rectAngle)

\* lines 272-291: the largest contour passed the area test
TapeFound(v, c) ==
    IF c.h = 0 THEN [v EXCEPT !.raised = "ZeroDivisionError"]
    ELSE [v EXCEPT !.targetX = RInt(c.x), !.targetY = RInt(c.y),
                   !.targetW = RInt(c.w), !.targetH = RInt(c.h),
                   !.aspectRatio = Rat(c.w, c.h),
                   !.rect = <<"minAreaRect", c.angle>>,
                   !.box = <<"boxPoints", c.angle>>,
                   !.cameraAngle = RInt(CameraAngle(c.angle)),
                   !.botAngle = RInt(2 * CameraAngle(c.angle)),
                   !.foundTape = TRUE]

\* line 297
TapeApparentWidth(v, tapeWidth) ==
    [v EXCEPT !.apparentTapeWidth = RMul(tapeWidth, CosDeg(v.botAngle[1]))]

\* line 300; targetW is not 0 here
TapeInchesPerPixel(v) ==
    [v EXCEPT !.inchesPerPixel = RDiv(v.apparentTapeWidth, v.targetW)]

\* lines 303 and 305
TapeOffsetPixels(v, cam) ==
    [v EXCEPT !.horizOffsetPixels =
                  RSub(RAdd(v.targetX, RDiv(v.targetW, RInt(2))),
                       Rat(cam.imageWidth, 2)),
              !.vertOffsetPixels =
                  RSub(Rat(cam.imageHeight, 2),
                       RSub(v.targetY, RDiv(v.targetH, RInt(2))))]

\* lines 304, 306 and 307
TapeOffsetInches(v) ==
    [v EXCEPT !.horizOffsetInInches = RMul(v.inchesPerPixel, v.horizOffsetPixels),
              !.vertOffsetInInches = RMul(v.inchesPerPixel, v.vertOffsetPixels),
              !.centerOffset = RNeg(RMul(v.inchesPerPixel, v.horizOffsetPixels))]

\* line 310
TapeStraightLine(v, cam) ==
    [v EXCEPT !.straightLineDistance =
                  RDiv(RMul(v.apparentTapeWidth, RInt(cam.focalLength)), v.targetW)]

\* line 311
TapeDistanceArg(v, heightDiff) ==
    [v EXCEPT !.distanceArg =
                  RSub(RMul(v.straightLineDistance, v.straightLineDistance),
                       RMul(heightDiff, heightDiff))]

\* a distance that is never taken from the root
TapeDistanceSkipped(v) == v

\* lines 312-313
TapeDistance(v) ==
    IF RLt(RInt(0), v.distanceArg)
    THEN [v EXCEPT !.distanceToTape = RSqrt(v.distanceArg)]
    ELSE v

\* line 314; the cosine of a double is not 0 on the bot angles drawn
TapeWall(v) ==
    [v EXCEPT !.distanceToWall = RDiv(v.distanceToTape, CosDeg(v.botAngle[1]))]

\* lines 317-318; distanceToTape is 1000 or a positive root
TapeAngles(v) ==
    [v EXCEPT !.horizAngleToTape = RDiv(v.horizOffsetInInches, v.distanceToTape),
              !.vertAngleToTape = RDiv(v.vertOffsetInInches, v.distanceToTape)]

\* lines 321-322
TapeLock(v, lockTolerance) ==
    IF WithinTolerance(v.horizOffsetInInches, lockTolerance)
    THEN [v EXCEPT !.targetLock = TRUE]
    ELSE v

\* lines 297-322: the real world values of the found tape
TapeRealWorld(v, cam, d) ==
    IF FloatErr(d, kTAPEWIDTH) # "" THEN [v EXCEPT !.raised = FloatErr(d, kTAPEWIDTH)]
    ELSE IF RIsZero(v.targetW) THEN [v EXCEPT !.raised = "ZeroDivisionError"]
    ELSE IF FloatErr(d, kGOALHEIGHT) # "" THEN [v EXCEPT !.raised = FloatErr(d, kGOALHEIGHT)]
    ELSE IF FloatErr(d, kLOCKTOLERANCE) # ""
         THEN [v EXCEPT !.raised = FloatErr(d, kLOCKTOLERANCE)]
    ELSE TapeLock(
           TapeAngles(TapeWall(TapeDistance(
             TapeDistanceArg(
               TapeStraightLine(
                 TapeOffsetInches(TapeOffsetPixels(
                   TapeInchesPerPixel(
                     TapeApparentWidth(v, FloatVal(d[kTAPEWIDTH]))), cam)), cam),
               RSub(FloatVal(d[kGOALHEIGHT]), RInt(cam.mountHeight)))))),
           FloatVal(d[kLOCKTOLERANCE]))

\* lines 267-291
TapeLargest(largestContour, minArea) ==
    IF MeetsMinArea(largestContour.area, minArea)
    THEN TapeFound(TapeDefaults, largestContour)
    ELSE TapeDefaults

\* line 294
TapeIfFound(v, cam, d) ==
    IF v.raised = "" /\ v.foundTape THEN TapeRealWorld(v, cam, d) ELSE v

\* lines 264-322
TapeValues(tapeContours, cam, d) ==
    IF Len(tapeContours) > 0
    THEN IF IntErr(d, kMINAREA) # ""
         THEN [TapeDefaults EXCEPT !.raised = IntErr(d, kMINAREA)]
         ELSE TapeIfFound(TapeLargest(LargestContour(tapeContours),
                                      IntVal(d[kMINAREA])), cam, d)
    ELSE TapeDefaults

\* lines 325-343: the tuple returned
TapeReturn(v) ==
    IF v.raised # "" THEN [raised |-> v.raised, ret |-> NoResult]
    ELSE [raised |-> "",
          ret |-> [tapeCameraValues |->
                      [TargetX |-> v.targetX, TargetY |-> v.targetY,
                       TargetW |-> v.targetW, TargetH |-> v.targetH,
                       IPP |-> v.inchesPerPixel,
                       Offset |-> v.horizOffsetPixels],
                   tapeRealWorldValues |->
                      [AspectRatio |-> v.aspectRatio,
                       CenterOffset |-> v.centerOffset,
                       StraightDistance |-> v.straightLineDistance,
                       TapeDistance |-> v.distanceToTape,
                       WallDistance |-> v.distanceToWall,
                       HAngle |-> v.horizAngleToTape,
                       VAngle |-> v.vertAngleToTape,
                       TargetRotation |-> v.cameraAngle,
                       BotAngle |-> v.botAngle,
                       ApparentWidth |-> v.apparentTapeWidth,
                       VertOffset |-> v.vertOffsetInInches],
                   foundTape |-> v.foundTape,
                   targetLock |-> v.targetLock,
                   rect |-> v.rect,
                   box |-> v.box]]

\* detect_tape_rectangle(imgRaw, imageWidth, imageHeight, cameraFOV,
\* cameraFocalLength, cameraMountAngle, cameraMountHeight): the exception
\* raised, or the tuple returned
DetectTapeRectangle(tapeContours, cam, d) ==
    IF HsvErr(d) # "" THEN [raised |-> HsvErr(d), ret |-> NoResult]
    ELSE TapeReturn(TapeValues(tapeContours, cam, d))

-----------------------------------------------------------------------------
(* Bounds and inputs                                                       *)

MaxInstances == 2
MaxBallContours == 3
MaxTapeContours == 2

SeqsUpTo(S, n) == UNION {[1..k -> S] : k \in 0..n}

\* ball contours: area, centre and radius of the enclosing circle
BallBig == [area |-> 100, x |-> 4, y |-> 3, radius |-> 5]
BallThin == [area |-> 80, x |-> 6, y |-> 3, radius |-> 2]
BallFar == [area |-> 60, x |-> 2, y |-> 1, radius |-> 9]
BallEdge == [area |-> 80, x |-> 1, y |-> 1, radius |-> 4]

BallContourKinds == {BallBig, BallThin, BallFar, BallEdge}

BallFrames == SeqsUpTo(BallContourKinds, MaxBallContours)

CamBall == [width |-> 8, height |-> 6, fov |-> 45]

BallCameras == {CamBall, [CamBall EXCEPT !.width = 4]}

\* tape contours: area, bounding box, angle of the rotated rectangle
TapeNear == [area |-> 16, x |-> 5, y |-> 2, w |-> 4, h |-> 4, angle |-> 0]
TapeOff == [area |-> 16, x |-> 6, y |-> 2, w |-> 4, h |-> 4, angle |-> -90]
TapeSmall == [area |-> 5, x |-> 0, y |-> 0, w |-> 4, h |-> 2, angle |-> 0]
TapeFlat == [area |-> 20, x |-> 1, y |-> 1, w |-> 4, h |-> 0, angle |-> 0]
TapeWide == [area |-> 32, x |-> 0, y |-> 3, w |-> 8, h |-> 4, angle |-> -30]
TapeLeft == [area |-> 18, x |-> 0, y |-> 2, w |-> 4, h |-> 4, angle |-> 0]

TapeContourKinds == {TapeNear, TapeOff, TapeSmall, TapeFlat, TapeWide}

TapeFrames == SeqsUpTo(TapeContourKinds, MaxTapeContours)

CamTape ==
    [imageWidth |-> 9, imageHeight |-> 6, fov |-> 45, focalLength |-> 5,
     mountAngle |-> 0, mountHeight |-> 4]

TapeCameras == {CamTape, [CamTape EXCEPT !.mountHeight = 7]}

-----------------------------------------------------------------------------
(* The vision library as a state machine                                   *)

NoCall == [op |-> "none", self |-> 0, args |-> <<>>, raised |-> "", ret |-> None]

VisionInit ==
    /\ ball_values = EmptyDict
    /\ goal_values = EmptyDict
    /\ tape_values = EmptyDict
    /\ visionFile = NoFile
    /\ instances = <<>>
    /\ lastCall = NoCall

\* VisionLibrary(visionfile): __init__ sets the class field, reads the file
\* into the class-level dicts and drops what read_vision_file returns
Construct(files) ==
    \E file \in files :
      /\ Len(instances) < MaxInstances
      /\ \E r \in {ReadVisionFile(file, ball_values, goal_values, tape_values)} :
             /\ visionFile' = file
             /\ ball_values' = r.ball
             /\ goal_values' = r.goal
             /\ tape_values' = r.tape
             /\ IF r.raised = ""
                THEN /\ instances' = Append(instances, [loaded |-> r.ret])
                     /\ lastCall' = [op |-> "__init__", self |-> Len(instances) + 1,
                                     args |-> file, raised |-> "", ret |-> None]
                ELSE /\ instances' = instances
                     /\ lastCall' = [op |-> "__init__", self |-> 0,
                                     args |-> file, raised |-> r.raised,
                                     ret |-> NoResult]

\* self.read_vision_file(file) called on an object that exists
Reload(files) ==
    \E self \in 1..Len(instances), file \in files :
      \E r \in {ReadVisionFile(file, ball_values, goal_values, tape_values)} :
          /\ ball_values' = r.ball
          /\ goal_values' = r.goal
          /\ tape_values' = r.tape
          /\ lastCall' = [op |-> "read_vision_file", self |-> self, args |-> file,
                          raised |-> r.raised,
                          ret |-> IF r.raised = "" THEN r.ret ELSE NoResult]
          /\ UNCHANGED <<visionFile, instances>>

\* self.detect_game_balls(...) on a frame whose contours are ballContours
DetectBalls(frames, cameras) ==
    \E self \in 1..Len(instances), ballContours \in frames, cam \in cameras :
      \E r \in {DetectGameBalls(ballContours, cam, ball_values)} :
          /\ lastCall' = [op |-> "detect_game_balls", self |-> self,
                          args |-> [contours |-> ballContours, cam |-> cam],
                          raised |-> r.raised, ret |-> r.ret]
          /\ UNCHANGED <<ball_values, goal_values, tape_values, visionFile, instances>>

\* self.detect_tape_rectangle(...) on a frame whose contours are tapeContours
DetectTape(frames, cameras) ==
    \E self \in 1..Len(instances), tapeContours \in frames, cam \in cameras :
      \E r \in {DetectTapeRectangle(tapeContours, cam, tape_values)} :
          /\ lastCall' = [op |-> "detect_tape_rectangle", self |-> self,
                          args |-> [contours |-> tapeContours, cam |-> cam],
                          raised |-> r.raised, ret |-> r.ret]
          /\ UNCHANGED <<ball_values, goal_values, tape_values, visionFile, instances>>

-----------------------------------------------------------------------------
(* FRCNavx: the polling thread and its callers                             *)
(* The value an iteration of update writes to angle, time and date is the  *)
(* number of that iteration; 0 is what __init__ left.                      *)

MaxThreads == 2
MaxPolls == 2

NoLog == [stopCalled |-> FALSE, iterations |-> 0, writes |-> 0]

\* the object before __init__ ran: no thread, nothing read
NavxIdle ==
    /\ stopped = FALSE
    /\ angle = 0
    /\ time = 0
    /\ date = 0
    /\ polls = 0
    /\ threads = <<>>
    /\ navxLog = NoLog
    /\ reader = <<>>

\* __init__ (lines 39-87): stopped is False exactly when the VMX client opened
NavxInit ==
    /\ stopped \in BOOLEAN
    /\ angle = 0
    /\ time = 0
    /\ date = 0
    /\ polls = 0
    /\ threads = <<>>
    /\ navxLog = NoLog
    /\ reader = <<>>

\* start_navx (lines 91-98): one more thread running update
StartNavx ==
    /\ Len(threads) < MaxThreads
    /\ threads' = Append(threads, [pc |-> "check", iteration |-> 0])
    /\ UNCHANGED <<stopped, angle, time, date, polls, navxLog, reader>>

\* a stop_navx that leaves the flag down
StopFlagLost == FALSE

\* line 105: the value stop_navx gives the flag
StopFlag == TRUE

\* stop_navx (lines 102-105)
StopNavx ==
    /\ stopped' = StopFlag
    /\ navxLog' = [navxLog EXCEPT !.stopCalled = TRUE]
    /\ UNCHANGED <<angle, time, date, polls, threads, reader>>

\* what one write of a thread adds to the log
Logged(field) ==
    IF navxLog.stopCalled THEN [navxLog EXCEPT ![field] = @ + 1] ELSE navxLog

\* lines 112-116: the test of the flag at the top of the loop
CheckStop(t) ==
    /\ threads[t].pc = "check"
    /\ IF stopped
       THEN /\ threads' = [threads EXCEPT ![t].pc = "done"]
            /\ UNCHANGED <<polls, navxLog>>
       ELSE /\ polls < MaxPolls
            /\ polls' = polls + 1
            /\ threads' = [threads EXCEPT ![t].pc = "angle", ![t].iteration = polls + 1]
            /\ navxLog' = Logged("iterations")
    /\ UNCHANGED <<stopped, angle, time, date, reader>>

\* line 119
PollAngle(t) ==
    /\ threads[t].pc = "angle"
    /\ angle' = threads[t].iteration
    /\ threads' = [threads EXCEPT ![t].pc = "time"]
    /\ navxLog' = Logged("writes")
    /\ UNCHANGED <<stopped, time, date, polls, reader>>

\* line 124
PollTime(t) ==
    /\ threads[t].pc = "time"
    /\ time' = threads[t].iteration
    /\ threads' = [threads EXCEPT ![t].pc = "date"]
    /\ navxLog' = Logged("writes")
    /\ UNCHANGED <<stopped, angle, date, polls, reader>>

\* line 125
PollDate(t) ==
    /\ threads[t].pc = "date"
    /\ date' = threads[t].iteration
    /\ threads' = [threads EXCEPT ![t].pc = "sleep"]
    /\ navxLog' = Logged("writes")
    /\ UNCHANGED <<stopped, angle, time, polls, reader>>

\* line 127
Sleep(t) ==
    /\ threads[t].pc = "sleep"
    /\ threads' = [threads EXCEPT ![t].pc = "check"]
    /\ UNCHANGED <<stopped, angle, time, date, polls, navxLog, reader>>

Update(t) == CheckStop(t) \/ PollAngle(t) \/ PollTime(t) \/ PollDate(t) \/ Sleep(t)

\* read_angle (lines 131-133)
ReadAngle ==
    /\ Len(reader) = 0
    /\ reader' = <<angle>>
    /\ UNCHANGED <<stopped, angle, time, date, polls, threads, navxLog>>

\* read_time (lines 156-158)
ReadTime ==
    /\ Len(reader) = 1
    /\ reader' = Append(reader, time)
    /\ UNCHANGED <<stopped, angle, time, date, polls, threads, navxLog>>

\* read_date (lines 162-164)
ReadDate ==
    /\ Len(reader) = 2
    /\ reader' = Append(reader, date)
    /\ UNCHANGED <<stopped, angle, time, date, polls, threads, navxLog>>

\* the caller starts over
ReadAgain ==
    /\ Len(reader) = 3
    /\ reader' = <<>>
    /\ UNCHANGED <<stopped, angle, time, date, polls, threads, navxLog>>

-----------------------------------------------------------------------------
(* Specifications                                                          *)

Init == VisionInit /\ NavxIdle

Next ==
    \/ Construct(FixedFiles) /\ UNCHANGED navxVars
    \/ Reload(FixedFiles) /\ UNCHANGED navxVars
    \/ DetectBalls({<<>>, <<BallBig>>}, {CamBall}) /\ UNCHANGED navxVars
    \/ DetectTape({<<>>, <<TapeNear>>}, {CamTape}) /\ UNCHANGED navxVars

\* the library with every operation
Spec == Init /\ [][Next]_vars

NextBalls ==
    \/ Construct({NoFile, File(FileFull)}) /\ UNCHANGED navxVars
    \/ DetectBalls(BallFrames, BallCameras) /\ UNCHANGED navxVars

\* the ball estimator on every frame
SpecBalls == Init /\ [][NextBalls]_vars

NextTape ==
    \/ Construct({NoFile, File(FileFull)}) /\ UNCHANGED navxVars
    \/ DetectTape(TapeFrames, TapeCameras) /\ UNCHANGED navxVars

\* the tape estimator on every frame
SpecTape == Init /\ [][NextTape]_vars

LockFrames == SeqsUpTo({TapeNear, TapeOff, TapeLeft}, MaxTapeContours)

NextLock ==
    \/ Construct({NoFile, File(FileFull)}) /\ UNCHANGED navxVars
    \/ DetectTape(LockFrames, {CamTape}) /\ UNCHANGED navxVars

\* the tape estimator on the frames around the lock tolerance
SpecLock == Init /\ [][NextLock]_vars

DistanceFrames == SeqsUpTo({TapeNear, TapeWide}, MaxTapeContours)

NextDistance ==
    \/ Construct({NoFile, File(FileFull)}) /\ UNCHANGED navxVars
    \/ DetectTape(DistanceFrames, TapeCameras) /\ UNCHANGED navxVars

\* the tape estimator on targets nearer and farther than the height between
\* camera and goal
SpecDistance == Init /\ [][NextDistance]_vars

MaxKeyContours == 2

KeyBallFrames == SeqsUpTo({BallBig, BallThin}, MaxKeyContours)

KeyTapeFrames == SeqsUpTo({TapeNear, TapeSmall}, MaxKeyContours)

NextKeys ==
    \/ Construct(FixedFiles) /\ UNCHANGED navxVars
    \/ DetectBalls(KeyBallFrames, {CamBall}) /\ UNCHANGED navxVars
    \/ DetectTape(KeyTapeFrames, {CamTape}) /\ UNCHANGED navxVars

\* both estimators on every store the calibration sources give
SpecKeys == Init /\ [][NextKeys]_vars

InitNavx == VisionInit /\ NavxInit

NavxNext ==
    \/ StartNavx /\ UNCHANGED visionVars
    \/ StopNavx /\ UNCHANGED visionVars
    \/ \E t \in 1..Len(threads) : Update(t) /\ UNCHANGED visionVars

\* the Navx object, its polling threads and stop_navx; every started thread
\* keeps running (the scheduler does not starve a runnable thread)
SpecNavx ==
    /\ InitNavx
    /\ [][NavxNext]_vars
    /\ \A t \in 1..MaxThreads :
          WF_vars(t \in 1..Len(threads) /\ Update(t) /\ UNCHANGED visionVars)

NavxReadNext ==
    \/ StartNavx /\ UNCHANGED visionVars
    \/ \E t \in 1..Len(threads) : Update(t) /\ UNCHANGED visionVars
    \/ ReadAngle /\ UNCHANGED visionVars
    \/ ReadTime /\ UNCHANGED visionVars
    \/ ReadDate /\ UNCHANGED visionVars
    \/ ReadAgain /\ UNCHANGED visionVars

\* the Navx object, its polling threads and a caller of the read methods
SpecNavxRead == InitNavx /\ [][NavxReadNext]_vars

MaxLines == 3

\* the lines a source is made of: section lines in either case, a blank line,
\* key/value lines (one of them with a third field), a line of one field
LoadLineKinds ==
    { kwBALL \o <<"\n">>,
      <<"v","i","s","i","o","n","t","a","p","e",":","\n">>,
      BlankLine,
      <<"h","m","i","n",",","5","\n">>,
      <<"H","M","I","N",",","7",",","9","\n">>,
      <<"N","O","T","E","\n">> }

LoadFiles == {NoFile} \cup {File(l) : l \in SeqsUpTo(LoadLineKinds, MaxLines)}

\* a source loaded on top of what an earlier load left
FileAgain == <<kwGOALTARGET, <<"h","m","i","n",",","5">>, kwBALL, <<"s","m","i","n",",","3">> >>

NextLoad ==
    \/ lastCall.op = "none" /\ Construct(LoadFiles) /\ UNCHANGED navxVars
    \/ lastCall.op # "none" /\ Construct({NoFile, File(FileAgain)}) /\ UNCHANGED navxVars
    \/ Reload({NoFile, File(FileAgain)}) /\ UNCHANGED navxVars

\* the loader on every source of at most MaxLines lines as the first load of the
\* process, and on a second source after it
SpecLoad == Init /\ [][NextLoad]_vars

-----------------------------------------------------------------------------
(* C1: what the section grammar says a load stores                         *)

SectionWord(s) ==
    IF s = "BALL" THEN kwBALL
    ELSE IF s = "GOALTARGET" THEN kwGOALTARGET
    ELSE kwVISIONTAPE

Fields(line) == Split(Strip(line))

OpensSection(line, s) == Upper(Fields(line)[1]) = SectionWord(s)

IsMarker(line) ==
    \/ \E s \in {"BALL", "GOALTARGET", "VISIONTAPE"} : OpensSection(line, s)
    \/ Fields(line)[1] = <<>>

\* section s is open at line i: a line before it opened s and no line between
\* the two opened another section or closed s
OpenAt(lines, i, s) ==
    \E j \in 1..(i - 1) :
        /\ OpensSection(lines[j], s)
        /\ \A m \in (j + 1)..(i - 1) : ~IsMarker(lines[m])

\* the lines of the source that are inside section s
LinesIn(lines, s) ==
    {i \in 1..Len(lines) : ~IsMarker(lines[i]) /\ OpenAt(lines, i, s)}

KeysIn(lines, s) == {Upper(Fields(lines[i])[1]) : i \in LinesIn(lines, s)}

LastLineOf(lines, s, k) ==
    CHOOSE i \in LinesIn(lines, s) :
        /\ Upper(Fields(lines[i])[1]) = k
        /\ \A j \in LinesIn(lines, s) : Upper(Fields(lines[j])[1]) = k => j <= i

\* the mapping of section s after a load of lines into the mapping pre: a line of
\* one field has no value and stores nothing
ExpectedMapping(lines, s, pre) ==
    LET stored == {k \in KeysIn(lines, s) : Len(Fields(lines[LastLineOf(lines, s, k)])) >= 2}
    IN  [k \in (DOMAIN pre) \cup stored |->
            IF k \in stored THEN Fields(lines[LastLineOf(lines, s, k)])[2] ELSE pre[k]]

IsLoad(call) == call.op \in {"__init__", "read_vision_file"} /\ call.args.exists

\* C1: every load of a source that exists leaves in each section's mapping
\* exactly the KEY,VALUE lines that occur while that section is open (key in
\* upper case, value the second field as written, the last line of a key
\* winning), on top of what the mapping held, whatever the lines are
C1_LoadStoresSectionLines ==
    [][IsLoad(lastCall') =>
          /\ ball_values' = ExpectedMapping(lastCall'.args.lines, "BALL", ball_values)
          /\ goal_values' = ExpectedMapping(lastCall'.args.lines, "GOALTARGET", goal_values)
          /\ tape_values' = ExpectedMapping(lastCall'.args.lines, "VISIONTAPE", tape_values)]_vars

\* C1 on the sources in which every line inside a section has two fields at
\* least: the same statement, which the loader meets
C1_WellFormed(lines) ==
    \A s \in {"BALL", "GOALTARGET", "VISIONTAPE"} :
        \A i \in LinesIn(lines, s) : Len(Fields(lines[i])) >= 2

C1_LoadStoresWellFormedLines ==
    [][IsLoad(lastCall') /\ C1_WellFormed(lastCall'.args.lines) =>
          /\ lastCall'.raised = ""
          /\ ball_values' = ExpectedMapping(lastCall'.args.lines, "BALL", ball_values)
          /\ goal_values' = ExpectedMapping(lastCall'.args.lines, "GOALTARGET", goal_values)
          /\ tape_values' = ExpectedMapping(lastCall'.args.lines, "VISIONTAPE", tape_values)]_vars

-----------------------------------------------------------------------------
(* C2, C3: the store and the objects that share it                         *)

\* C2: once the first store is loaded, no later operation changes what the
\* estimators read from it
C2_StoreNeverMutatedAfterLoad ==
    [][(\E i \in 1..Len(instances) : instances[i].loaded)
          => UNCHANGED <<ball_values, goal_values, tape_values>>]_vars

IsDetect(call) == call.op \in {"detect_game_balls", "detect_tape_rectangle"}

\* C3: a construction from a file that does not exist gives its caller a load
\* error, and a detection call through an object whose load failed gets no
\* calibration value, so it cannot return a result
C3_MissingFileFailsWholesale ==
    /\ (lastCall.op = "__init__" /\ ~lastCall.args.exists) => lastCall.raised # ""
    /\ (IsDetect(lastCall) /\ ~instances[lastCall.self].loaded) => lastCall.raised # ""

-----------------------------------------------------------------------------
(* C4: the early exit of detect_game_balls                                 *)

BallsReturned == lastCall.op = "detect_game_balls" /\ lastCall.raised = ""

\* the contours of the frame of the last call, largest area first
C4_Sorted == SortByAreaDesc(lastCall.args.contours, <<>>)

\* the number of contours before the first one whose radius is below the minimum
C4_Accepted ==
    LET below == {i \in 1..Len(C4_Sorted) :
                     C4_Sorted[i].radius < IntVal(ball_values[kMINRADIUS])}
    IN  IF below = {} THEN Len(C4_Sorted)
        ELSE (CHOOSE i \in below : \A j \in below : i <= j) - 1

\* C4: detect_game_balls returns the detections of the contours that come, in
\* descending order of area, before the first contour whose radius is below
\* MINRADIUS (a radius equal to MINRADIUS is accepted), and their number
C4_StopsAtFirstRadiusBelowMinimum ==
    BallsReturned /\ lastCall.args.contours # <<>> =>
        /\ lastCall.ret[1] = C4_Accepted
        /\ Len(lastCall.ret[2]) = C4_Accepted
        /\ \A i \in 1..C4_Accepted :
              lastCall.ret[2][i] =
                  BallMetrics(C4_Sorted[i], lastCall.args.cam, ball_values).dict

-----------------------------------------------------------------------------
(* C5, C6, C8: detect_tape_rectangle                                       *)

TapeReturned == lastCall.op = "detect_tape_rectangle" /\ lastCall.raised = ""

C5_LargestArea ==
    LET cs == lastCall.args.contours
    IN  CHOOSE a \in {cs[i].area : i \in 1..Len(cs)} : \A j \in 1..Len(cs) : cs[j].area <= a

C5_Sentinels(ret) ==
    /\ ~ret.targetLock
    /\ \A f \in {"TargetX", "TargetY", "TargetW", "TargetH"} :
          ret.tapeCameraValues[f] = RInt(1000)
    /\ \A f \in {"IPP", "Offset"} : ret.tapeCameraValues[f] = RInt(0)
    /\ \A f \in {"StraightDistance", "TapeDistance", "WallDistance"} :
          ret.tapeRealWorldValues[f] = RInt(1000)
    /\ \A f \in {"AspectRatio", "CenterOffset", "HAngle", "VAngle", "TargetRotation",
                 "BotAngle", "ApparentWidth", "VertOffset"} :
          ret.tapeRealWorldValues[f] = RInt(0)
    /\ ret.rect = None
    /\ ret.box = None

\* C5: detect_tape_rectangle reports found exactly when the frame has a contour
\* and the largest area is not below MINAREA, and a return with found false
\* carries the sentinels and no rectangle
C5_FoundIffLargestNotBelowMinArea ==
    TapeReturned =>
        /\ lastCall.ret.foundTape =
              (/\ lastCall.args.contours # <<>>
               /\ C5_LargestArea >= IntVal(tape_values[kMINAREA]))
        /\ ~lastCall.ret.foundTape => C5_Sentinels(lastCall.ret)

\* C6: in every return of detect_tape_rectangle, locked is true exactly when
\* found is true and the absolute horizontal offset in inches is at most
\* LOCKTOLERANCE
C6_LockedIffFoundWithinTolerance ==
    TapeReturned =>
        lastCall.ret.targetLock =
            (/\ lastCall.ret.foundTape
             /\ RLe(RAbs(lastCall.ret.tapeRealWorldValues.CenterOffset),
                    FloatVal(tape_values[kLOCKTOLERANCE])))

\* a found tape whose offset is the tolerance itself, locked
C6_LockedAtTolerance ==
    /\ TapeReturned
    /\ lastCall.ret.foundTape
    /\ lastCall.ret.targetLock
    /\ RAbs(lastCall.ret.tapeRealWorldValues.CenterOffset)
          = FloatVal(tape_values[kLOCKTOLERANCE])

TapeStoreComplete ==
    /\ HsvErr(tape_values) = ""
    /\ IntErr(tape_values, kMINAREA) = ""
    /\ \A k \in {kTAPEWIDTH, kGOALHEIGHT, kLOCKTOLERANCE} : FloatErr(tape_values, k) = ""

\* C8: with every tape key present and numeric, detect_tape_rectangle returns
\* on every frame and camera, degenerate boxes included
C8_TapeNeverRaisesOnCompleteStore ==
    lastCall.op = "detect_tape_rectangle" /\ TapeStoreComplete => lastCall.raised = ""

-----------------------------------------------------------------------------
(* C7: the calibration keys a detection call reads                         *)

KeyBad(d, k) ==
    IF k \in {kRADIUS, kTAPEWIDTH, kGOALHEIGHT, kLOCKTOLERANCE}
    THEN FloatErr(d, k) # ""
    ELSE IntErr(d, k) # ""

HsvKeySet == {HsvKeys[i] : i \in 1..Len(HsvKeys)}

BallKeys == HsvKeySet \cup {kMINRADIUS, kRADIUS}

TapeKeys == HsvKeySet \cup {kMINAREA, kTAPEWIDTH, kGOALHEIGHT, kLOCKTOLERANCE}

\* the keys the call of detect_game_balls on these contours gets to: the colour
\* bounds; MINRADIUS when there is a contour; RADIUS when the contour of
\* largest area passes the radius test
BallKeysRead(contours, d) ==
    HsvKeySet
    \cup (IF contours # <<>> THEN {kMINRADIUS} ELSE {})
    \cup (IF /\ contours # <<>>
             /\ ~KeyBad(d, kMINRADIUS)
             /\ SortByAreaDesc(contours, <<>>)[1].radius > IntVal(d[kMINRADIUS])
          THEN {kRADIUS} ELSE {})

\* the keys the call of detect_tape_rectangle on these contours gets to: the
\* colour bounds; MINAREA when there is a contour; the three physical values
\* when the largest area passes the area test
TapeKeysRead(contours, d) ==
    HsvKeySet
    \cup (IF contours # <<>> THEN {kMINAREA} ELSE {})
    \cup (IF /\ contours # <<>>
             /\ ~KeyBad(d, kMINAREA)
             /\ LargestContour(contours).area > IntVal(d[kMINAREA])
          THEN {kTAPEWIDTH, kGOALHEIGHT, kLOCKTOLERANCE} ELSE {})

KeysConsumed ==
    IF lastCall.op = "detect_game_balls" THEN BallKeys ELSE TapeKeys

KeysRead ==
    IF lastCall.op = "detect_game_balls"
    THEN BallKeysRead(lastCall.args.contours, ball_values)
    ELSE TapeKeysRead(lastCall.args.contours, tape_values)

StoreRead == IF lastCall.op = "detect_game_balls" THEN ball_values ELSE tape_values

\* C7 as stated: a detection call made while a key its estimator consumes is
\* absent or not a number ends with an error, whatever the frame
C7_AnyBadKeyAborts ==
    IsDetect(lastCall) /\ (\E k \in KeysConsumed : KeyBad(StoreRead, k))
        => lastCall.raised # ""

\* C7: a detection call ends with an error exactly when a key it reads on its
\* frame is absent or not a number; the call that ends so returns nothing, and
\* no detection call changes the store
C7_BadKeyReadAborts ==
    /\ [](IsDetect(lastCall) =>
            /\ (lastCall.raised # "") = (\E k \in KeysRead : KeyBad(StoreRead, k))
            /\ lastCall.raised # "" =>
                  /\ lastCall.raised \in {"KeyError", "ValueError"}
                  /\ lastCall.ret = NoResult)
    /\ [][IsDetect(lastCall') =>
            UNCHANGED <<ball_values, goal_values, tape_values>>]_vars

\* a tape call on a found target, ended by the value of GOALHEIGHT, which is
\* no number, after a ball call on an empty frame that returned although
\* MINRADIUS is no number either
C7_AbortedOnValueRead ==
    /\ lastCall.op = "detect_tape_rectangle"
    /\ lastCall.args.contours # <<>>
    /\ lastCall.raised = "ValueError"
    /\ HsvErr(tape_values) = ""
    /\ KeyBad(tape_values, kGOALHEIGHT)

-----------------------------------------------------------------------------
(* C9, C10: FRCNavx                                                        *)

AllReturned == \A t \in 1..Len(threads) : threads[t].pc = "done"

\* C9: from the first call of stop_navx on the flag stays up, no thread begins
\* an iteration, each thread writes at most the three values of the iteration
\* it is in, every started thread returns, and a further call of stop_navx
\* changes nothing
C9_StopHaltsPolling ==
    /\ [](navxLog.stopCalled =>
            /\ stopped
            /\ navxLog.iterations = 0
            /\ navxLog.writes <= 3 * Len(threads))
    /\ [][navxLog.stopCalled /\ StopNavx => UNCHANGED navxVars]_vars
    /\ (navxLog.stopCalled ~> AllReturned)

\* stop_navx came while a thread was past the test of the flag: the thread
\* ended its iteration and returned
C9_ReturnedAfterOneIteration ==
    /\ navxLog.stopCalled
    /\ Len(threads) >= 1
    /\ AllReturned
    /\ navxLog.writes = 3

\* C10: the three values a caller reads with read_angle, read_time and
\* read_date come from one iteration of update
C10_ReadsAreOneSnapshot ==
    Len(reader) = 3 => reader[1] = reader[2] /\ reader[2] = reader[3]

-----------------------------------------------------------------------------
(* C11: the ground distance of a found tape                                *)

\* straightLineDistance^2 - (GOALHEIGHT - cameraMountHeight)^2 of the last call
C11_DistanceArg ==
    LET straight == lastCall.ret.tapeRealWorldValues.StraightDistance
        heightDiff == RSub(FloatVal(tape_values[kGOALHEIGHT]),
                           RInt(lastCall.args.cam.mountHeight))
    IN  RSub(RMul(straight, straight), RMul(heightDiff, heightDiff))

C11_Derived(rw) ==
    /\ rw.WallDistance = RDiv(rw.TapeDistance, CosDeg(rw.BotAngle[1]))
    /\ rw.HAngle = RDiv(RNeg(rw.CenterOffset), rw.TapeDistance)
    /\ rw.VAngle = RDiv(rw.VertOffset, rw.TapeDistance)

\* C11: in every return of detect_tape_rectangle with found true, TapeDistance
\* is the positive root of the distance argument when that is above 0 and the
\* sentinel 1000 otherwise, and WallDistance, HAngle and VAngle are derived
\* from the TapeDistance returned
C11_TapeDistanceRootOrSentinel ==
    TapeReturned /\ lastCall.ret.foundTape =>
        LET rw == lastCall.ret.tapeRealWorldValues
        IN  /\ IF RLt(RInt(0), C11_DistanceArg)
               THEN /\ RLt(RInt(0), rw.TapeDistance)
                    /\ RMul(rw.TapeDistance, rw.TapeDistance) = C11_DistanceArg
               ELSE rw.TapeDistance = RInt(1000)
            /\ C11_Derived(rw)

\* a found tape nearer than the height between camera and goal: the distance
\* argument is below 0, TapeDistance is 1000 and WallDistance 1000 / cos 60
C11_SentinelWhileFound ==
    /\ TapeReturned
    /\ lastCall.ret.foundTape
    /\ RLt(C11_DistanceArg, RInt(0))
    /\ lastCall.ret.tapeRealWorldValues.TapeDistance = RInt(1000)
    /\ lastCall.ret.tapeRealWorldValues.WallDistance = RInt(2000)

\* a found tape whose TapeDistance is the root of the distance argument
C11_RootTaken ==
    /\ TapeReturned
    /\ lastCall.ret.foundTape
    /\ RLt(RInt(0), C11_DistanceArg)
    /\ lastCall.ret.tapeRealWorldValues.TapeDistance # RInt(1000)

====
